---- MODULE Spec2Model ----
(***************************************************************************)
(* Customer-Service of Go-Core-Bank: the customer table behind GORM, the   *)
(* repository, the service and the HTTP handlers, as a state machine.      *)
(*                                                                         *)
(* Strings that the program inspects (names, email, phone, search query)   *)
(* are sequences of one-character strings, so that lengths and substring   *)
(* matches are computed.  Every repository call is one atomic step of the  *)
(* store; a service operation is the sequence of its repository calls, and *)
(* requests of different processes interleave between those steps.  boot   *)
(* is the start of the process: the environment, the configuration that    *)
(* config.Load reads from it, and the call of initDatabaseWithRetry.       *)
(***************************************************************************)
EXTENDS Integers, Sequences, FiniteSets, TLC

VARIABLES customers, now, proc, budget, boot

vars == <<customers, now, proc, budget, boot>>

(***************************************************************************)
(* Bounds of the model.                                                    *)
(***************************************************************************)
NumProcs == 2
MaxRequests == 4
MaxTime == 2
MaxTotal == 25
ClockPerMicro == 2

Procs == 1..NumProcs

(***************************************************************************)
(* Program constants.                                                      *)
(***************************************************************************)
SizeName == 100
SizeEmail == 255
SizePhone == 20
DefaultPage == 1
DefaultPageSize == 10
MaxPageSize == 100

CustomerStatusActive == "active"
CustomerStatusInactive == "inactive"
CustomerStatusSuspended == "suspended"
CustomerStatusClosed == "closed"

Nil == "nil"
ErrFirstName == "first name is required"
ErrLastName == "last name is required"
ErrEmail == "email is required"
ErrPhone == "phone is required"
ErrConflict == "customer with this email already exists"
ErrNotFound == "customer not found"
ErrCreateFailed == "failed to create customer"
ErrGetFailed == "failed to get customer"
ErrUpdateFailed == "failed to update customer"
ErrDeleteFailed == "failed to delete customer"
ErrCountFailed == "failed to count customers"
ErrListFailed == "failed to list customers"
ErrSearchFailed == "failed to search customers"

(* Errors of the database driver, by the text the repository looks for.   *)
DBOk == "ok"
DBDuplicateKey == "duplicate key value violates unique constraint"
DBTooLong == "value too long for type character varying"
DBRecordNotFound == "record not found"
DBUnavailable == "connection refused"

(***************************************************************************)
(* Strings.                                                                *)
(***************************************************************************)
Rep(c, n) == [i \in 1..n |-> c]

Max(S) == CHOOSE x \in S : \A y \in S : y <= x
Min(S) == CHOOSE x \in S : \A y \in S : x <= y

(***************************************************************************)
(* models.Customer and its parts.                                          *)
(***************************************************************************)
ZeroUUID == 0

NullTime == [Valid |-> FALSE, Time |-> 0]

(* A *time.Time of a request: the calendar day and the time of day;        *)
(* NilTime is the nil pointer.                                             *)
Midnight == "00:00:00Z"
Time(day, clock) == [Day |-> day, Clock |-> clock]
NilTime == Time("", "")

Address(street, city) ==
    [Street |-> street, City |-> city, State |-> "", PostalCode |-> "", Country |-> ""]

CustomerRequest(fn, ln, em, ph, dob, addr) ==
    [FirstName |-> fn, LastName |-> ln, Email |-> em, Phone |-> ph,
     DateOfBirth |-> dob, Address |-> addr]

NoRequest == CustomerRequest(<<>>, <<>>, <<>>, <<>>, NilTime, Address("", ""))

NoCustomer ==
    [ID |-> ZeroUUID, FirstName |-> <<>>, LastName |-> <<>>, Email |-> <<>>,
     Phone |-> <<>>, DateOfBirth |-> NilTime, Address |-> Address("", ""),
     Status |-> "", CreatedAt |-> 0, UpdatedAt |-> 0, DeletedAt |-> NullTime]

ToResponse(c) ==
    [ID |-> c.ID, FirstName |-> c.FirstName, LastName |-> c.LastName,
     Email |-> c.Email, Phone |-> c.Phone, DateOfBirth |-> c.DateOfBirth,
     Address |-> c.Address, Status |-> c.Status, CreatedAt |-> c.CreatedAt,
     UpdatedAt |-> c.UpdatedAt]

NoResponse == ToResponse(NoCustomer)

(***************************************************************************)
(* The customers table as GORM and PostgreSQL maintain it.                 *)
(***************************************************************************)

Visible_All(r) == TRUE

(* gorm.DeletedAt: every query and UPDATE of the model carries            *)
(* "deleted_at IS NULL".                                                   *)
Visible(r) == ~r.DeletedAt.Valid

(* default:gen_random_uuid(): a primary key no row of the table has; rows  *)
(* are never removed, so one more than the largest key is such a value.    *)
gen_random_uuid(rows) == IF rows = {} THEN 1 ELSE Max({r.ID : r \in rows}) + 1

UniqueViolation_None(rows, row) == FALSE

(* gorm:"uniqueIndex" on email and the primary key on id: AutoMigrate      *)
(* creates plain unique indexes, which cover soft-deleted rows as well.    *)
UniqueViolation(rows, row) ==
    \E r \in rows : r.ID # row.ID /\ r.Email = row.Email

(* size:100 / size:255 / size:20 become varchar(n) columns.                *)
TooLong(row) ==
    \/ Len(row.FirstName) > SizeName
    \/ Len(row.LastName) > SizeName
    \/ Len(row.Email) > SizeEmail
    \/ Len(row.Phone) > SizePhone

(* The clock of the program counts ClockPerMicro units to the microsecond; *)
(* a timestamptz column keeps whole microseconds.                          *)
PgTimestamp(t) == t - (t % ClockPerMicro)

(* A column of type date keeps the calendar day.                           *)
PgDate(d) == IF d = NilTime THEN NilTime ELSE Time(d.Day, Midnight)

(* The row that is written for a models.Customer.                          *)
PgRow(c) ==
    [c EXCEPT !.DateOfBirth = PgDate(@), !.CreatedAt = PgTimestamp(@),
              !.UpdatedAt = PgTimestamp(@)]

(* db.Create: a zero ID and an empty Status are left to the column         *)
(* defaults and read back, CreatedAt and UpdatedAt are set to the current  *)
(* time in the struct, and the struct is written.                          *)
dbCreate(rows, c, t) ==
    LET id == IF c.ID = ZeroUUID THEN gen_random_uuid(rows) ELSE c.ID
        status == IF c.Status = "" THEN CustomerStatusActive ELSE c.Status
        value == [c EXCEPT !.ID = id, !.Status = status,
                           !.CreatedAt = t, !.UpdatedAt = t]
        row == PgRow(value)
    IN  IF TooLong(row)
        THEN [Error |-> DBTooLong, RowsAffected |-> 0, rows |-> rows, value |-> c]
        ELSE IF (\E r \in rows : r.ID = row.ID) \/ UniqueViolation(rows, row)
        THEN [Error |-> DBDuplicateKey, RowsAffected |-> 0, rows |-> rows, value |-> c]
        ELSE [Error |-> DBOk, RowsAffected |-> 1, rows |-> rows \cup {row}, value |-> value]

(* db.Where(...).First: the visible row with the least primary key.        *)
dbFirst(matching) ==
    IF matching = {}
    THEN [Error |-> DBRecordNotFound, value |-> NoCustomer]
    ELSE [Error |-> DBOk,
          value |-> CHOOSE r \in matching : \A s \in matching : r.ID <= s.ID]

dbUpdate_NonZero(rows, c, t) ==
    LET target == {r \in rows : Visible(r) /\ r.ID = c.ID}
        old == CHOOSE r \in target : TRUE
        value == [c EXCEPT !.UpdatedAt = t]
        row == [PgRow(value) EXCEPT
                  !.DateOfBirth = IF c.DateOfBirth = NilTime THEN old.DateOfBirth ELSE @,
                  !.Address = IF c.Address = Address("", "") THEN old.Address ELSE @]
    IN  IF target = {}
        THEN [Error |-> DBOk, RowsAffected |-> 0, rows |-> rows, value |-> value]
        ELSE IF TooLong(row)
        THEN [Error |-> DBTooLong, RowsAffected |-> 0, rows |-> rows, value |-> value]
        ELSE IF UniqueViolation(rows, row)
        THEN [Error |-> DBDuplicateKey, RowsAffected |-> 0, rows |-> rows, value |-> value]
        ELSE [Error |-> DBOk, RowsAffected |-> 1,
              rows |-> (rows \ target) \cup {row}, value |-> value]

(* db.Save, first statement: UPDATE customers SET <every column> WHERE     *)
(* id = c.ID AND deleted_at IS NULL.                                       *)
dbUpdate(rows, c, t) ==
    LET target == {r \in rows : Visible(r) /\ r.ID = c.ID}
        value == [c EXCEPT !.UpdatedAt = t]
        row == PgRow(value)
    IN  IF target = {}
        THEN [Error |-> DBOk, RowsAffected |-> 0, rows |-> rows, value |-> value]
        ELSE IF TooLong(row)
        THEN [Error |-> DBTooLong, RowsAffected |-> 0, rows |-> rows, value |-> value]
        ELSE IF UniqueViolation(rows, row)
        THEN [Error |-> DBDuplicateKey, RowsAffected |-> 0, rows |-> rows, value |-> value]
        ELSE [Error |-> DBOk, RowsAffected |-> 1,
              rows |-> (rows \ target) \cup {row}, value |-> value]

(* db.Save, second statement, issued when the UPDATE matched no row:       *)
(* INSERT ... ON CONFLICT (id) DO UPDATE SET <every column but id and      *)
(* created_at>, deleted_at included.                                       *)
dbUpsert(rows, c, t) ==
    LET existing == {r \in rows : r.ID = c.ID}
        row == IF existing = {}
               THEN PgRow([c EXCEPT !.UpdatedAt = t])
               ELSE [PgRow([c EXCEPT !.UpdatedAt = t]) EXCEPT
                        !.CreatedAt = (CHOOSE r \in existing : TRUE).CreatedAt]
    IN  IF TooLong(row)
        THEN [Error |-> DBTooLong, RowsAffected |-> 0, rows |-> rows, value |-> c]
        ELSE IF UniqueViolation(rows, row)
        THEN [Error |-> DBDuplicateKey, RowsAffected |-> 0, rows |-> rows, value |-> c]
        ELSE [Error |-> DBOk, RowsAffected |-> 1,
              rows |-> (rows \ existing) \cup {row}, value |-> [c EXCEPT !.UpdatedAt = t]]

dbDelete_Unscoped(rows, id, t) ==
    LET target == {r \in rows : r.ID = id}
    IN  [Error |-> DBOk, RowsAffected |-> Cardinality(target),
         rows |-> (rows \ target) \cup
                  {[r EXCEPT !.DeletedAt = [Valid |-> TRUE, Time |-> PgTimestamp(t)]] :
                      r \in target}]

(* db.Delete on a model with gorm.DeletedAt: UPDATE customers SET          *)
(* deleted_at = now WHERE id = ? AND deleted_at IS NULL.                   *)
dbDelete(rows, id, t) ==
    LET target == {r \in rows : Visible(r) /\ r.ID = id}
    IN  [Error |-> DBOk, RowsAffected |-> Cardinality(target),
         rows |-> (rows \ target) \cup
                  {[r EXCEPT !.DeletedAt = [Valid |-> TRUE, Time |-> PgTimestamp(t)]] :
                      r \in target}]

(***************************************************************************)
(* The repository.  fault = TRUE is a call that the store fails with an    *)
(* error that is neither record-not-found nor a duplicate key.             *)
(***************************************************************************)
Create(rows, customer, t, fault) ==
    LET r == dbCreate(rows, customer, t)
    IN  IF fault THEN [err |-> ErrCreateFailed, rows |-> rows, customer |-> customer]
        ELSE IF r.Error = DBDuplicateKey
        THEN [err |-> ErrConflict, rows |-> rows, customer |-> customer]
        ELSE IF r.Error # DBOk
        THEN [err |-> ErrCreateFailed, rows |-> rows, customer |-> customer]
        ELSE [err |-> Nil, rows |-> r.rows, customer |-> r.value]

GetByID_AnyRow(rows, id, fault) ==
    LET r == dbFirst({c \in rows : Visible(c)})
    IN  IF fault THEN [err |-> ErrGetFailed, customer |-> NoCustomer]
        ELSE IF r.Error = DBRecordNotFound
        THEN [err |-> ErrNotFound, customer |-> NoCustomer]
        ELSE [err |-> Nil, customer |-> r.value]

GetByID_NoNotFound(rows, id, fault) ==
    LET r == dbFirst({c \in rows : Visible(c) /\ c.ID = id})
    IN  IF fault \/ r.Error # DBOk THEN [err |-> ErrGetFailed, customer |-> NoCustomer]
        ELSE [err |-> Nil, customer |-> r.value]

GetByID(rows, id, fault) ==
    LET r == dbFirst({c \in rows : Visible(c) /\ c.ID = id})
    IN  IF fault THEN [err |-> ErrGetFailed, customer |-> NoCustomer]
        ELSE IF r.Error = DBRecordNotFound
        THEN [err |-> ErrNotFound, customer |-> NoCustomer]
        ELSE [err |-> Nil, customer |-> r.value]

GetByEmail(rows, email, fault) ==
    LET r == dbFirst({c \in rows : Visible(c) /\ c.Email = email})
    IN  IF fault THEN [err |-> ErrGetFailed, customer |-> NoCustomer]
        ELSE IF r.Error = DBRecordNotFound
        THEN [err |-> ErrNotFound, customer |-> NoCustomer]
        ELSE [err |-> Nil, customer |-> r.value]

(* Update maps the error of either statement of db.Save.                   *)
Update(r, fault) ==
    IF fault THEN ErrUpdateFailed
    ELSE IF r.Error = DBDuplicateKey THEN ErrConflict
    ELSE IF r.Error # DBOk THEN ErrUpdateFailed
    ELSE Nil

Delete_FailsAfterWrite(rows, id, t, fault) ==
    LET r == dbDelete(rows, id, t)
    IN  IF fault THEN [err |-> ErrDeleteFailed, rows |-> r.rows]
        ELSE IF r.RowsAffected = 0 THEN [err |-> ErrNotFound, rows |-> rows]
        ELSE [err |-> Nil, rows |-> r.rows]

Delete(rows, id, t, fault) ==
    LET r == dbDelete(rows, id, t)
    IN  IF fault THEN [err |-> ErrDeleteFailed, rows |-> rows]
        ELSE IF r.RowsAffected = 0 THEN [err |-> ErrNotFound, rows |-> rows]
        ELSE [err |-> Nil, rows |-> r.rows]

(***************************************************************************)
(* The service.                                                            *)
(***************************************************************************)
validateCustomerRequest(req) ==
    IF req.FirstName = <<>> THEN ErrFirstName
    ELSE IF req.LastName = <<>> THEN ErrLastName
    ELSE IF req.Email = <<>> THEN ErrEmail
    ELSE IF req.Phone = <<>> THEN ErrPhone
    ELSE Nil

NewCustomer_Inactive(req) ==
    [NoCustomer EXCEPT !.FirstName = req.FirstName, !.LastName = req.LastName,
                       !.Email = req.Email, !.Phone = req.Phone,
                       !.DateOfBirth = req.DateOfBirth, !.Address = req.Address,
                       !.Status = CustomerStatusInactive]

(* The models.Customer that CreateCustomer builds from the request.        *)
NewCustomer(req) ==
    [NoCustomer EXCEPT !.FirstName = req.FirstName, !.LastName = req.LastName,
                       !.Email = req.Email, !.Phone = req.Phone,
                       !.DateOfBirth = req.DateOfBirth, !.Address = req.Address,
                       !.Status = CustomerStatusActive]

(* The field assignments of UpdateCustomer on the loaded customer.         *)
ApplyRequest(customer, req) ==
    [customer EXCEPT !.FirstName = req.FirstName, !.LastName = req.LastName,
                     !.Email = req.Email, !.Phone = req.Phone,
                     !.DateOfBirth = req.DateOfBirth, !.Address = req.Address]

(***************************************************************************)
(* Go int, reduced to IntBits bits: products wrap as they do in the        *)
(* program.                                                                *)
(***************************************************************************)
IntBits == 16
MaxInt == 2^(IntBits - 1) - 1
MinInt == -(2^(IntBits - 1))

WrapInt(x) == ((x - MinInt) % (2^IntBits)) + MinInt

(***************************************************************************)
(* ILIKE of PostgreSQL: '%' matches any run of characters, '_' any one     *)
(* character, a backslash takes the next pattern character literally;      *)
(* letters compare without case.                                           *)
(***************************************************************************)
ToLower(c) ==
    CASE c = "J" -> "j" [] c = "D" -> "d" [] c = "R" -> "r" [] c = "A" -> "a"
      [] c = "O" -> "o" [] c = "E" -> "e" [] OTHER -> c

LowerStr(s) == [i \in 1..Len(s) |-> ToLower(s[i])]

RECURSIVE Like(_, _)
Like(s, pat) ==
    IF pat = <<>> THEN s = <<>>
    ELSE IF Head(pat) = "%"
    THEN Like(s, Tail(pat)) \/ (s # <<>> /\ Like(Tail(s), pat))
    ELSE IF Head(pat) = "\\" /\ Len(pat) >= 2
    THEN s # <<>> /\ Head(s) = pat[2] /\ Like(Tail(s), Tail(Tail(pat)))
    ELSE s # <<>> /\ (Head(pat) = "_" \/ Head(pat) = Head(s)) /\ Like(Tail(s), Tail(pat))

ILike(s, pat) == Like(LowerStr(s), LowerStr(pat))

(***************************************************************************)
(* List and Search of the repository: a count query, then a page query.    *)
(***************************************************************************)

(* ORDER BY created_at DESC: rows with equal created_at come in any order. *)
RECURSIVE Orderings(_)
Orderings(S) ==
    IF S = {} THEN {<<>>}
    ELSE LET top == {r \in S : \A x \in S : x.CreatedAt <= r.CreatedAt}
         IN  UNION {{<<r>> \o o : o \in Orderings(S \ {r})} : r \in top}

(* Limit(n).Offset(k): GORM writes OFFSET only for k > 0.                  *)
LimitOffset(o, limit, offset) ==
    LET from == IF offset > 0 THEN offset ELSE 0
        upto == IF from + limit < Len(o) THEN from + limit ELSE Len(o)
    IN  SubSeq(o, from + 1, upto)

Offset(page, pageSize) == WrapInt((page - 1) * pageSize)

(* The rows the List queries range over.                                   *)
ListScope(rows) == {r \in rows : Visible(r)}

(* The rows the Search queries range over.                                 *)
SearchScope(rows, req) ==
    LET searchTerm == <<"%">> \o req.Query \o <<"%">>
    IN  {r \in rows :
            /\ Visible(r)
            /\ req.Query # <<>> =>
                  \/ ILike(r.FirstName, searchTerm)
                  \/ ILike(r.LastName, searchTerm)
                  \/ ILike(r.Email, searchTerm)
                  \/ ILike(r.Phone, searchTerm)
            /\ req.Status # "" => r.Status = req.Status}

(* The pagination defaults Search applies again to its request.            *)
SearchPaging(req) ==
    LET page == IF req.Page <= 0 THEN DefaultPage ELSE req.Page
        pageSize == IF req.PageSize <= 0 THEN DefaultPageSize ELSE req.PageSize
    IN  [Page |-> page, PageSize |-> pageSize]

(* The page queries: the possible results, one for each order of ties.     *)
ListFind(rows, page, pageSize) ==
    {LimitOffset(o, pageSize, Offset(page, pageSize)) : o \in Orderings(ListScope(rows))}

SearchFind(rows, req) ==
    LET pg == SearchPaging(req)
    IN  {LimitOffset(o, pg.PageSize, Offset(pg.Page, pg.PageSize)) :
            o \in Orderings(SearchScope(rows, req))}

(***************************************************************************)
(* Pagination policy of the service.                                       *)
(***************************************************************************)
NormalizePage(page) == IF page <= 0 THEN DefaultPage ELSE page

NormalizePageSize_NoClamp(pageSize) ==
    IF pageSize <= 0 THEN DefaultPageSize ELSE pageSize

NormalizePageSize(pageSize) ==
    IF pageSize <= 0 THEN DefaultPageSize
    ELSE IF pageSize > MaxPageSize THEN MaxPageSize
    ELSE pageSize

TotalPages_Floor(total, pageSize) == total \div pageSize

(* int(math.Ceil(float64(total) / float64(pageSize))): total is a row      *)
(* count and pageSize is at most MaxPageSize, so both conversions and the  *)
(* quotient's ceiling are exact, and the result is the integer ceiling.    *)
TotalPages(total, pageSize) == (total + pageSize - 1) \div pageSize

CustomerSearchRequest(query, status, page, pageSize) ==
    [Query |-> query, Status |-> status, Page |-> page, PageSize |-> pageSize]

NoSearch == CustomerSearchRequest(<<>>, "", 0, 0)

CustomerListResponse(items, total, page, pageSize) ==
    [Customers |-> [i \in 1..Len(items) |-> ToResponse(items[i])],
     Total |-> total, Page |-> page, PageSize |-> pageSize,
     TotalPages |-> TotalPages(total, pageSize)]

NoQuery == [Limit |-> 0, Offset |-> 0]

NoList == [Customers |-> <<>>, Total |-> 0, Page |-> 0, PageSize |-> 0, TotalPages |-> 0]

(***************************************************************************)
(* The HTTP handlers: the status code for the outcome of the service call. *)
(***************************************************************************)
StatusOK == 200
StatusCreated == 201
StatusNoContent == 204
StatusBadRequest == 400
StatusNotFound == 404
StatusInternalServerError == 500

HandlerStatus_NoNotFound(op, err) ==
    CASE op = "CreateCustomer" ->
            IF err # Nil THEN StatusBadRequest ELSE StatusCreated
      [] op = "GetCustomer" ->
            IF err # Nil THEN StatusNotFound ELSE StatusOK
      [] op = "UpdateCustomer" ->
            IF err = Nil THEN StatusOK ELSE StatusBadRequest
      [] op = "DeleteCustomer" ->
            IF err = Nil THEN StatusNoContent ELSE StatusBadRequest
      [] OTHER ->
            IF err # Nil THEN StatusInternalServerError ELSE StatusOK

HandlerStatus(op, err) ==
    CASE op = "CreateCustomer" ->
            IF err # Nil THEN StatusBadRequest ELSE StatusCreated
      [] op = "GetCustomer" ->
            IF err # Nil THEN StatusNotFound ELSE StatusOK
      [] op = "UpdateCustomer" ->
            IF err = Nil THEN StatusOK
            ELSE IF err = ErrNotFound THEN StatusNotFound ELSE StatusBadRequest
      [] op = "DeleteCustomer" ->
            IF err = Nil THEN StatusNoContent
            ELSE IF err = ErrNotFound THEN StatusNotFound ELSE StatusBadRequest
      [] OTHER ->
            IF err # Nil THEN StatusInternalServerError ELSE StatusOK

(***************************************************************************)
(* config.Load.  The environment maps every key to its value, the empty    *)
(* string for a key that is not set; the values of the keys read as        *)
(* integers are sequences of characters.                                   *)
(***************************************************************************)
StringKeys == {"DB_HOST", "DB_USER", "DB_PASSWORD", "DB_NAME", "DB_SSL_MODE",
               "SERVER_HOST", "APP_ENV", "LOG_LEVEL", "JWT_SECRET"}
IntKeys == {"DB_PORT", "SERVER_PORT"}

Digits == <<"0", "1", "2", "3", "4", "5", "6", "7", "8", "9">>

DigitValue(c) == (CHOOSE i \in 1..Len(Digits) : Digits[i] = c) - 1

RECURSIVE ParseUint(_, _)
ParseUint(s, acc) ==
    IF s = <<>> THEN acc ELSE ParseUint(Tail(s), acc * 10 + DigitValue(Head(s)))

(* strconv.Atoi: an optional sign and decimal digits, within the int range. *)
Atoi(s) ==
    LET signed == s # <<>> /\ Head(s) \in {"+", "-"}
        body == IF signed THEN Tail(s) ELSE s
        n == IF signed /\ Head(s) = "-" THEN -ParseUint(body, 0) ELSE ParseUint(body, 0)
    IN  IF body = <<>> \/ \E i \in 1..Len(body) : \A k \in 1..Len(Digits) : Digits[k] # body[i]
        THEN [err |-> "invalid syntax", value |-> 0]
        ELSE IF n > MaxInt THEN [err |-> "value out of range", value |-> MaxInt]
        ELSE IF n < MinInt THEN [err |-> "value out of range", value |-> MinInt]
        ELSE [err |-> Nil, value |-> n]

getEnv(env, key, fallback) == IF env[key] # "" THEN env[key] ELSE fallback

getEnvAsInt(env, key, fallback) ==
    IF env[key] # <<>> /\ Atoi(env[key]).err = Nil THEN Atoi(env[key]).value
    ELSE fallback

Load(env) ==
    [Database |-> [Host |-> getEnv(env, "DB_HOST", "localhost"),
                   Port |-> getEnvAsInt(env, "DB_PORT", 5432),
                   User |-> getEnv(env, "DB_USER", "postgres"),
                   Password |-> getEnv(env, "DB_PASSWORD", ""),
                   DBName |-> getEnv(env, "DB_NAME", "core_bank"),
                   SSLMode |-> getEnv(env, "DB_SSL_MODE", "disable")],
     Server |-> [Host |-> getEnv(env, "SERVER_HOST", "localhost"),
                 Port |-> getEnvAsInt(env, "SERVER_PORT", 8080)],
     App |-> [Environment |-> getEnv(env, "APP_ENV", "development"),
              LogLevel |-> getEnv(env, "LOG_LEVEL", "info"),
              JWTSecret |-> getEnv(env, "JWT_SECRET", "your_jwt_secret_key_here")]]

(* The environment with no key set, and the process started from it.       *)
NoEnv == [k \in StringKeys \cup IntKeys |-> IF k \in IntKeys THEN <<>> ELSE ""]

NoConfig == Load(NoEnv)

(***************************************************************************)
(* database.initDatabaseWithRetry.  boot.db is the call: its position,     *)
(* the parameter maxRetries, the loop counter i, the error it returns, and *)
(* log, the outcome of every connection attempt and every sleep, in order. *)
(***************************************************************************)
ErrDBConnect == "failed to connect to database"
ErrDBInstance == "failed to get database instance"
ErrDBPing == "failed to ping database"

NoDB == [pc |-> "none", maxRetries |-> 0, i |-> 0, err |-> Nil, log |-> <<>>]

(* The call is entered: i := 0.                                            *)
StartDB(maxRetries) == [NoDB EXCEPT !.pc = "for", !.maxRetries = maxRetries]

Retry_SleepAlways(db, e) ==
    [db EXCEPT !.pc = "Sleep", !.log = Append(@, e)]

(* A step of the attempt failed: sleep and continue, or return the error   *)
(* when this was the last attempt.                                         *)
Retry(db, e) ==
    IF db.i < db.maxRetries - 1
    THEN [db EXCEPT !.pc = "Sleep", !.log = Append(@, e)]
    ELSE [db EXCEPT !.pc = "return", !.err = e, !.log = Append(@, e)]

Booted == [pc |-> "loaded", env |-> NoEnv, config |-> NoConfig, db |-> NoDB]

(* main calls config.Load.                                                 *)
LoadConfig ==
    /\ boot.pc = "start"
    /\ boot' = [boot EXCEPT !.pc = "loaded", !.config = Load(boot.env)]
    /\ UNCHANGED <<customers, now, proc, budget>>

(* for i := 0; i < maxRetries; i++ : the loop condition; after the loop    *)
(* the function returns an error.                                          *)
initDatabaseWithRetry_For ==
    /\ boot.db.pc = "for"
    /\ boot' = [boot EXCEPT !.db =
                  IF boot.db.i < boot.db.maxRetries
                  THEN [@ EXCEPT !.pc = "Open"]
                  ELSE [@ EXCEPT !.pc = "return", !.err = ErrDBConnect]]
    /\ UNCHANGED <<customers, now, proc, budget>>

(* gorm.Open                                                               *)
initDatabaseWithRetry_Open(ok) ==
    /\ boot.db.pc = "Open"
    /\ boot' = [boot EXCEPT !.db =
                  IF ok THEN [@ EXCEPT !.pc = "DB"] ELSE Retry(@, ErrDBConnect)]
    /\ UNCHANGED <<customers, now, proc, budget>>

(* DB.DB(): the connection handle.                                         *)
initDatabaseWithRetry_DB(ok) ==
    /\ boot.db.pc = "DB"
    /\ boot' = [boot EXCEPT !.db =
                  IF ok THEN [@ EXCEPT !.pc = "Ping"] ELSE Retry(@, ErrDBInstance)]
    /\ UNCHANGED <<customers, now, proc, budget>>

(* sqlDB.Ping(); on success the function returns nil.                      *)
initDatabaseWithRetry_Ping(ok) ==
    /\ boot.db.pc = "Ping"
    /\ boot' = [boot EXCEPT !.db =
                  IF ok
                  THEN [@ EXCEPT !.pc = "return", !.err = Nil,
                                 !.log = Append(@, "connected")]
                  ELSE Retry(@, ErrDBPing)]
    /\ UNCHANGED <<customers, now, proc, budget>>

(* time.Sleep(retryDelay); continue                                        *)
initDatabaseWithRetry_Sleep ==
    /\ boot.db.pc = "Sleep"
    /\ boot' = [boot EXCEPT !.db =
                  [@ EXCEPT !.pc = "for", !.i = @ + 1, !.log = Append(@, "sleep")]]
    /\ UNCHANGED <<customers, now, proc, budget>>

(***************************************************************************)
(* Requests in flight.  proc[p] is the request process p is handling (or   *)
(* has last answered): the position in the service operation, its local    *)
(* variables, and the answer.  input is the list or search request as the  *)
(* handler received it, sql the LIMIT and OFFSET of the page query, before *)
(* the table at the first store access of the request, conc the processes  *)
(* whose current request overlapped this one, fault whether a store call   *)
(* of the request failed.                                                  *)
(***************************************************************************)
IdleProc ==
    [pc |-> "idle", op |-> "none", id |-> ZeroUUID, req |-> NoRequest,
     search |-> NoSearch, customer |-> NoCustomer, total |-> 0,
     err |-> Nil, resp |-> NoResponse, list |-> NoList, code |-> 0,
     input |-> NoSearch, sql |-> NoQuery,
     fault |-> FALSE, before |-> {}, conc |-> {}]

InFlight(q) == proc[q].pc \notin {"idle", "done"}

(* A handler is entered: the process takes up a new request.               *)
Begin(p, rec) ==
    /\ ~InFlight(p)
    /\ budget > 0
    /\ budget' = budget - 1
    /\ proc' = [q \in Procs |->
                  IF q = p
                  THEN [rec EXCEPT !.before = customers,
                                   !.conc = {x \in Procs \ {p} : InFlight(x)}]
                  ELSE IF InFlight(q)
                  THEN [proc[q] EXCEPT !.conc = @ \cup {p}]
                  ELSE [proc[q] EXCEPT !.conc = @ \ {p}]]

(* The service returns and the handler writes the status code.             *)
Done(rec) == [rec EXCEPT !.pc = "done", !.code = HandlerStatus(rec.op, rec.err)]

(***************************************************************************)
(* CreateCustomer                                                          *)
(***************************************************************************)
CreateCustomer(p, req, fault) ==
    LET rec == [IdleProc EXCEPT !.op = "CreateCustomer", !.req = req]
        verr == validateCustomerRequest(req)
        existingCustomer == GetByEmail(customers, req.Email, fault)
    IN  /\ Begin(p, IF verr # Nil
                    THEN Done([rec EXCEPT !.err = verr])
                    ELSE IF existingCustomer.err = Nil
                    THEN Done([rec EXCEPT !.err = ErrConflict])
                    ELSE [rec EXCEPT !.pc = "Create", !.fault = fault,
                                     !.customer = NewCustomer(req)])
        /\ UNCHANGED <<customers, now, boot>>

CreateCustomer_Create(p, fault) ==
    LET rec == proc[p]
        r == Create(customers, rec.customer, now, fault)
    IN  /\ rec.pc = "Create"
        /\ customers' = r.rows
        /\ proc' = [proc EXCEPT ![p] =
              IF r.err # Nil
              THEN Done([rec EXCEPT !.err = r.err, !.fault = @ \/ fault])
              ELSE Done([rec EXCEPT !.customer = r.customer,
                                    !.resp = ToResponse(r.customer)])]
        /\ UNCHANGED <<now, budget, boot>>

(***************************************************************************)
(* GetCustomer                                                             *)
(***************************************************************************)
GetCustomer(p, id, fault) ==
    LET rec == [IdleProc EXCEPT !.op = "GetCustomer", !.id = id, !.fault = fault]
        r == GetByID(customers, id, fault)
    IN  /\ Begin(p, IF r.err # Nil
                    THEN Done([rec EXCEPT !.err = r.err])
                    ELSE Done([rec EXCEPT !.customer = r.customer,
                                          !.resp = ToResponse(r.customer)]))
        /\ UNCHANGED <<customers, now, boot>>

(***************************************************************************)
(* UpdateCustomer                                                          *)
(***************************************************************************)
UpdateCustomer(p, id, req, fault) ==
    LET rec == [IdleProc EXCEPT !.op = "UpdateCustomer", !.id = id, !.req = req]
        verr == validateCustomerRequest(req)
        r == GetByID(customers, id, fault)
    IN  /\ Begin(p, IF verr # Nil
                    THEN Done([rec EXCEPT !.err = verr])
                    ELSE IF r.err # Nil
                    THEN Done([rec EXCEPT !.err = r.err, !.fault = fault])
                    ELSE IF r.customer.Email # req.Email
                    THEN [rec EXCEPT !.pc = "GetByEmail", !.customer = r.customer]
                    ELSE [rec EXCEPT !.pc = "Save",
                                     !.customer = ApplyRequest(r.customer, req)])
        /\ UNCHANGED <<customers, now, boot>>

UpdateCustomer_GetByEmail(p, fault) ==
    LET rec == proc[p]
        existingCustomer == GetByEmail(customers, rec.req.Email, fault)
    IN  /\ rec.pc = "GetByEmail"
        /\ proc' = [proc EXCEPT ![p] =
              IF existingCustomer.err = Nil
              THEN Done([rec EXCEPT !.err = ErrConflict])
              ELSE [rec EXCEPT !.pc = "Save", !.fault = @ \/ fault,
                               !.customer = ApplyRequest(rec.customer, rec.req)]]
        /\ UNCHANGED <<customers, now, budget, boot>>

(* repo.Update: db.Save is the UPDATE and, when that matched no row, the   *)
(* INSERT ... ON CONFLICT.                                                 *)
UpdateCustomer_Save(p, fault) ==
    LET rec == proc[p]
        u == dbUpdate(customers, rec.customer, now)
        r == IF u.Error = DBOk /\ u.RowsAffected = 0
             THEN dbUpsert(customers, u.value, now)
             ELSE u
        err == Update(r, fault)
    IN  /\ rec.pc = "Save"
        /\ customers' = IF err = Nil THEN r.rows ELSE customers
        /\ proc' = [proc EXCEPT ![p] =
              IF err # Nil
              THEN Done([rec EXCEPT !.err = err, !.fault = @ \/ fault])
              ELSE Done([rec EXCEPT !.customer = r.value,
                                    !.resp = ToResponse(r.value)])]
        /\ UNCHANGED <<now, budget, boot>>

(***************************************************************************)
(* DeleteCustomer                                                          *)
(***************************************************************************)
DeleteCustomer(p, id, fault) ==
    LET rec == [IdleProc EXCEPT !.op = "DeleteCustomer", !.id = id]
        r == GetByID(customers, id, fault)
    IN  /\ Begin(p, IF r.err # Nil
                    THEN Done([rec EXCEPT !.err = r.err, !.fault = fault])
                    ELSE [rec EXCEPT !.pc = "Delete"])
        /\ UNCHANGED <<customers, now, boot>>

DeleteCustomer_Delete(p, fault) ==
    LET rec == proc[p]
        r == Delete(customers, rec.id, now, fault)
    IN  /\ rec.pc = "Delete"
        /\ customers' = r.rows
        /\ proc' = [proc EXCEPT ![p] =
              Done([rec EXCEPT !.err = r.err, !.fault = @ \/ fault])]
        /\ UNCHANGED <<now, budget, boot>>

(***************************************************************************)
(* ListCustomers                                                           *)
(***************************************************************************)
ListCustomers(p, page0, pageSize0, fault) ==
    LET page == NormalizePage(page0)
        pageSize == NormalizePageSize(pageSize0)
        rec == [IdleProc EXCEPT !.op = "ListCustomers",
                                !.input = CustomerSearchRequest(<<>>, "", page0, pageSize0),
                                !.search = CustomerSearchRequest(<<>>, "", page, pageSize)]
    IN  /\ Begin(p, IF fault
                    THEN Done([rec EXCEPT !.err = ErrCountFailed, !.fault = TRUE])
                    ELSE [rec EXCEPT !.pc = "ListFind",
                                     !.total = Cardinality(ListScope(customers))])
        /\ UNCHANGED <<customers, now, boot>>

ListCustomers_Find(p, fault) ==
    LET rec == proc[p]
    IN  /\ rec.pc = "ListFind"
        /\ \E items \in ListFind(customers, rec.search.Page, rec.search.PageSize) :
              proc' = [proc EXCEPT ![p] =
                 IF fault
                 THEN Done([rec EXCEPT !.err = ErrListFailed, !.fault = TRUE])
                 ELSE Done([rec EXCEPT
                        !.sql = [Limit |-> rec.search.PageSize,
                                 Offset |-> Offset(rec.search.Page, rec.search.PageSize)],
                        !.list = CustomerListResponse(items, rec.total,
                                     rec.search.Page, rec.search.PageSize)])]
        /\ UNCHANGED <<customers, now, budget, boot>>

(***************************************************************************)
(* SearchCustomers                                                         *)
(***************************************************************************)
SearchCustomers(p, sreq, fault) ==
    LET req == [sreq EXCEPT !.Page = NormalizePage(sreq.Page),
                            !.PageSize = NormalizePageSize(sreq.PageSize)]
        rec == [IdleProc EXCEPT !.op = "SearchCustomers", !.input = sreq, !.search = req]
    IN  /\ Begin(p, IF fault
                    THEN Done([rec EXCEPT !.err = ErrCountFailed, !.fault = TRUE])
                    ELSE [rec EXCEPT !.pc = "SearchFind",
                                     !.total = Cardinality(SearchScope(customers, req))])
        /\ UNCHANGED <<customers, now, boot>>

SearchCustomers_Find(p, fault) ==
    LET rec == proc[p]
    IN  /\ rec.pc = "SearchFind"
        /\ \E items \in SearchFind(customers, rec.search) :
              proc' = [proc EXCEPT ![p] =
                 IF fault
                 THEN Done([rec EXCEPT !.err = ErrSearchFailed, !.fault = TRUE])
                 ELSE Done([rec EXCEPT
                        !.sql = [Limit |-> SearchPaging(rec.search).PageSize,
                                 Offset |-> Offset(SearchPaging(rec.search).Page,
                                                   SearchPaging(rec.search).PageSize)],
                        !.list = CustomerListResponse(items, rec.total,
                                     rec.search.Page, rec.search.PageSize)])]
        /\ UNCHANGED <<customers, now, budget, boot>>

(* Time passes.                                                            *)
Tick ==
    /\ now < MaxTime
    /\ now' = now + 1
    /\ UNCHANGED <<customers, proc, budget, boot>>

(***************************************************************************)
(* Inputs.                                                                 *)
(***************************************************************************)
John == <<"J", "o", "h", "n">>
Jane == <<"J", "a", "n", "e">>
Doe == <<"D", "o", "e">>
Roe == <<"R", "o", "e">>
EmailJohn == <<"j", "o", "@", "x", ".", "c">>
EmailJane == <<"j", "a", "@", "x", ".", "c">>
Phone5 == Rep("5", 10)
Phone6 == Rep("6", 10)
Dob == Time("1990-01-15", Midnight)
DobNoon == Time("1990-01-15", "12:00:00Z")
Home == Address("123 Main St", "Anytown")
Away == Address("", "")

ReqJohn == CustomerRequest(John, Doe, EmailJohn, Phone5, Dob, Home)
ReqJane == CustomerRequest(Jane, Roe, EmailJane, Phone6, NilTime, Away)
ReqJohnRoe == CustomerRequest(John, Roe, EmailJohn, Phone6, DobNoon, Away)

ReqNoFirst == CustomerRequest(<<>>, Doe, EmailJohn, Phone5, Dob, Home)
ReqNoLast == CustomerRequest(John, <<>>, EmailJohn, Phone5, Dob, Home)
ReqNoEmail == CustomerRequest(John, Doe, <<>>, Phone5, Dob, Home)
ReqNoPhone == CustomerRequest(John, Doe, EmailJohn, <<>>, Dob, Home)
ReqNoLastNoPhone == CustomerRequest(John, <<>>, EmailJohn, <<>>, Dob, Home)
ReqShortFirst == CustomerRequest(<<"J">>, Doe, EmailJane, Phone5, Dob, Home)
ReqShortFirstNoLast == CustomerRequest(<<"J">>, <<>>, EmailJane, Phone5, Dob, Home)
ReqLongLast == CustomerRequest(Jane, Rep("x", 101), EmailJane, Phone5, Dob, Home)
ReqBadEmail == CustomerRequest(Jane, Roe, <<"j", "a", ".", "x">>, Phone5, Dob, Home)
ReqShortPhone == CustomerRequest(Jane, Roe, EmailJane, Rep("5", 9), Dob, Home)
ReqLongPhone == CustomerRequest(Jane, Roe, EmailJane, Rep("5", 21), Dob, Home)

ValidRequests == {ReqJohn, ReqJane, ReqJohnRoe}

InvalidRequests ==
    {ReqNoFirst, ReqNoLast, ReqNoEmail, ReqNoPhone, ReqNoLastNoPhone,
     ReqShortFirst, ReqShortFirstNoLast, ReqLongLast, ReqBadEmail,
     ReqShortPhone, ReqLongPhone}

Pages == {-1, 0, 1, 2, MaxInt}
PageSizes == {-1, 0, 1, 2, 100, 101, 150}
Queries == {<<>>, <<"j", "o">>, <<"J", "A">>}
Statuses == {"", CustomerStatusActive, CustomerStatusClosed}
SearchQueries ==
    Queries \cup {<<"R", "O", "E">>, <<"5", "5">>, <<"z">>, <<"_">>, <<"%">>}

(* The ids a request may name: every id of the table and one that is not   *)
(* in it.                                                                  *)
Ids == {r.ID : r \in customers} \cup {gen_random_uuid(customers)}

(* The state after construction: an empty table, no request, and the       *)
(* number of requests the run will issue.                                  *)
InitWith(n) ==
    /\ customers = {}
    /\ now = 1
    /\ proc = [p \in Procs |-> IdleProc]
    /\ budget = n
    /\ boot = Booted

(***************************************************************************)
(* Spec: the writing requests of NumProcs processes, interleaved at their  *)
(* store calls, within one instant of the clock and with a store that does *)
(* not fail.  Creates carry either email; updates carry the second one, so *)
(* that they change the email of one customer and keep that of the other.  *)
(* The reading requests are in SpecSeq and SpecPage.                       *)
(***************************************************************************)
Init == InitWith(MaxRequests)

Next ==
    \/ \E p \in Procs, req \in {ReqJohn, ReqJane} : CreateCustomer(p, req, FALSE)
    \/ \E p \in Procs : CreateCustomer_Create(p, FALSE)
    \/ \E p \in Procs, id \in Ids : UpdateCustomer(p, id, ReqJane, FALSE)
    \/ \E p \in Procs : UpdateCustomer_GetByEmail(p, FALSE)
    \/ \E p \in Procs : UpdateCustomer_Save(p, FALSE)
    \/ \E p \in Procs, id \in Ids : DeleteCustomer(p, id, FALSE)
    \/ \E p \in Procs : DeleteCustomer_Delete(p, FALSE)

Spec == Init /\ [][Next]_vars

(***************************************************************************)
(* SpecSeq: one process, one request at a time; the clock advances and     *)
(* store calls may fail.                                                   *)
(***************************************************************************)
InitSeq == InitWith(MaxRequests)

NextSeq ==
    \/ \E req \in ValidRequests, fault \in BOOLEAN : CreateCustomer(1, req, fault)
    \/ \E fault \in BOOLEAN : CreateCustomer_Create(1, fault)
    \/ \E id \in Ids, fault \in BOOLEAN : GetCustomer(1, id, fault)
    \/ \E id \in Ids, req \in ValidRequests, fault \in BOOLEAN :
          UpdateCustomer(1, id, req, fault)
    \/ \E fault \in BOOLEAN : UpdateCustomer_GetByEmail(1, fault)
    \/ \E fault \in BOOLEAN : UpdateCustomer_Save(1, fault)
    \/ \E id \in Ids, fault \in BOOLEAN : DeleteCustomer(1, id, fault)
    \/ \E fault \in BOOLEAN : DeleteCustomer_Delete(1, fault)
    \/ \E page \in {1, 2}, pageSize \in {1, 2}, fault \in BOOLEAN :
          ListCustomers(1, page, pageSize, fault)
    \/ \E fault \in BOOLEAN : ListCustomers_Find(1, fault)
    \/ \E query \in Queries, status \in Statuses, fault \in BOOLEAN :
          SearchCustomers(1, CustomerSearchRequest(query, status, 1, 2), fault)
    \/ \E fault \in BOOLEAN : SearchCustomers_Find(1, fault)
    \/ Tick

SpecSeq == InitSeq /\ [][NextSeq]_vars

(***************************************************************************)
(* SpecValidate: one process creating, updating and deleting customers     *)
(* with requests of every shape, well-formed or not.                       *)
(***************************************************************************)
InitValidate == InitWith(MaxRequests - 1)

NextValidate ==
    \/ \E req \in ValidRequests \cup InvalidRequests : CreateCustomer(1, req, FALSE)
    \/ CreateCustomer_Create(1, FALSE)
    \/ \E id \in Ids, req \in ValidRequests \cup InvalidRequests :
          UpdateCustomer(1, id, req, FALSE)
    \/ UpdateCustomer_GetByEmail(1, FALSE)
    \/ UpdateCustomer_Save(1, FALSE)
    \/ \E id \in Ids : DeleteCustomer(1, id, FALSE)
    \/ DeleteCustomer_Delete(1, FALSE)

SpecValidate == InitValidate /\ [][NextValidate]_vars

(***************************************************************************)
(* SpecPage: one process listing and searching a growing table with page   *)
(* numbers and page sizes of every kind.                                   *)
(***************************************************************************)
InitPage == InitWith(MaxRequests - 1)

NextPage ==
    \/ \E req \in {ReqJohn, ReqJane} : CreateCustomer(1, req, FALSE)
    \/ CreateCustomer_Create(1, FALSE)
    \/ \E page \in Pages, pageSize \in PageSizes :
          ListCustomers(1, page, pageSize, FALSE)
    \/ ListCustomers_Find(1, FALSE)
    \/ \E query \in {<<>>, <<"j", "o">>}, page \in Pages, pageSize \in PageSizes :
          SearchCustomers(1, CustomerSearchRequest(query, "", page, pageSize), FALSE)
    \/ SearchCustomers_Find(1, FALSE)

SpecPage == InitPage /\ [][NextPage]_vars

(***************************************************************************)
(* SpecSearch: one process searching a table of live and soft-deleted      *)
(* customers with queries of every kind, wildcard characters included.     *)
(***************************************************************************)
InitSearch == InitWith(MaxRequests - 1)

NextSearch ==
    \/ \E req \in {ReqJohn, ReqJane} : CreateCustomer(1, req, FALSE)
    \/ CreateCustomer_Create(1, FALSE)
    \/ \E id \in Ids : DeleteCustomer(1, id, FALSE)
    \/ DeleteCustomer_Delete(1, FALSE)
    \/ \E query \in SearchQueries, status \in Statuses,
          page \in {1, 2}, pageSize \in {1, 2} :
          SearchCustomers(1, CustomerSearchRequest(query, status, page, pageSize), FALSE)
    \/ SearchCustomers_Find(1, FALSE)

SpecSearch == InitSearch /\ [][NextSearch]_vars

(***************************************************************************)
(* SpecConfig: the process starts in some environment and loads its        *)
(* configuration.                                                          *)
(***************************************************************************)
PortValues ==
    {<<>>, <<"9", "0", "9", "0">>, <<"-", "1">>, <<"8", "0", "a">>,
     <<"9", "9", "9", "9", "9", "9">>}

(* The keys in set have the value "prod", the integer keys the values of   *)
(* ports, every other key is not set.                                      *)
Env(set, ports) ==
    [k \in StringKeys \cup IntKeys |->
        IF k \in IntKeys THEN ports[k] ELSE IF k \in set THEN "prod" ELSE ""]

InitConfig ==
    /\ customers = {}
    /\ now = 1
    /\ proc = [p \in Procs |-> IdleProc]
    /\ budget = 0
    /\ \E set \in SUBSET (StringKeys \ {"LOG_LEVEL", "JWT_SECRET"}),
          ports \in [IntKeys -> PortValues] :
          boot = [pc |-> "start", env |-> Env(set, ports), config |-> NoConfig,
                  db |-> NoDB]

NextConfig == LoadConfig

SpecConfig == InitConfig /\ [][NextConfig]_vars

(***************************************************************************)
(* SpecRace: NumProcs processes updating and deleting the customers of the *)
(* table, interleaved at their store calls, with a store that does not     *)
(* fail.  Updates carry either request, so that two of them differ in      *)
(* every field.                                                            *)
(***************************************************************************)
InitRace == InitWith(MaxRequests)

NextRace ==
    \/ \E p \in Procs : CreateCustomer(p, ReqJohn, FALSE)
    \/ \E p \in Procs : CreateCustomer_Create(p, FALSE)
    \/ \E p \in Procs, r \in customers, req \in {ReqJohn, ReqJane} :
          UpdateCustomer(p, r.ID, req, FALSE)
    \/ \E p \in Procs : UpdateCustomer_GetByEmail(p, FALSE)
    \/ \E p \in Procs : UpdateCustomer_Save(p, FALSE)
    \/ \E p \in Procs, r \in customers : DeleteCustomer(p, r.ID, FALSE)
    \/ \E p \in Procs : DeleteCustomer_Delete(p, FALSE)

SpecRace == InitRace /\ [][NextRace]_vars

(***************************************************************************)
(* SpecList: NumProcs processes creating customers, possibly at the same   *)
(* instant, and then listing the table page by page, each process its own  *)
(* page; the store does not fail.                                          *)
(***************************************************************************)
InitList == InitWith(MaxRequests)

NextList ==
    \/ \E p \in Procs, req \in {ReqJohn, ReqJane} : CreateCustomer(p, req, FALSE)
    \/ \E p \in Procs : CreateCustomer_Create(p, FALSE)
    \/ \E p \in Procs, page \in 1..NumProcs, pageSize \in {1, 2} :
          ListCustomers(p, page, pageSize, FALSE)
    \/ \E p \in Procs : ListCustomers_Find(p, FALSE)
    \/ Tick

SpecList == InitList /\ [][NextList]_vars

(***************************************************************************)
(* SpecDB: the process has loaded its configuration and calls              *)
(* initDatabaseWithRetry with some maxRetries; gorm.Open, DB.DB() and Ping *)
(* each succeed or fail.  Every call returns, so a step that is possible   *)
(* is eventually taken.                                                    *)
(***************************************************************************)
MaxRetries == 3

InitDB ==
    /\ customers = {}
    /\ now = 1
    /\ proc = [p \in Procs |-> IdleProc]
    /\ budget = 0
    /\ \E maxRetries \in -1..MaxRetries :
          boot = [Booted EXCEPT !.db = StartDB(maxRetries)]

NextDB ==
    \/ initDatabaseWithRetry_For
    \/ \E ok \in BOOLEAN : initDatabaseWithRetry_Open(ok)
    \/ \E ok \in BOOLEAN : initDatabaseWithRetry_DB(ok)
    \/ \E ok \in BOOLEAN : initDatabaseWithRetry_Ping(ok)
    \/ initDatabaseWithRetry_Sleep

SpecDB == InitDB /\ [][NextDB]_vars /\ WF_vars(NextDB)

(***************************************************************************)
(* Vocabulary of the properties.                                           *)
(***************************************************************************)
Live(r) == ~r.DeletedAt.Valid

Holders(rows, email) == {r \in rows : Live(r) /\ r.Email = email}

IdsOf(rows) == {r.ID : r \in rows}

Answered(p, op) == proc[p].pc = "done" /\ proc[p].op = op

(* The field constraints of a customer request: names of 2 to 100          *)
(* characters, a phone of 10 to 20, an email of the form local@domain.tld. *)
NameOK(s) == Len(s) >= 2 /\ Len(s) <= 100

PhoneOK(s) == Len(s) >= 10 /\ Len(s) <= 20

EmailOK(s) ==
    /\ Cardinality({i \in 1..Len(s) : s[i] = "@"}) = 1
    /\ LET at == CHOOSE i \in 1..Len(s) : s[i] = "@"
       IN  /\ at > 1
           /\ \E i \in (at + 2)..(Len(s) - 1) : s[i] = "."

WellFormed(req) ==
    /\ NameOK(req.FirstName)
    /\ NameOK(req.LastName)
    /\ EmailOK(req.Email)
    /\ PhoneOK(req.Phone)

ValidationErrors == {"first name is required", "last name is required",
                     "email is required", "phone is required"}

(* The validation error for the first field, in the order first_name,      *)
(* last_name, email, phone, that breaks its constraint.                    *)
FirstViolation(req) ==
    IF ~NameOK(req.FirstName) THEN "first name is required"
    ELSE IF ~NameOK(req.LastName) THEN "last name is required"
    ELSE IF ~EmailOK(req.Email) THEN "email is required"
    ELSE IF ~PhoneOK(req.Phone) THEN "phone is required"
    ELSE "nil"

(***************************************************************************)
(* C1.  Two valid CreateCustomer requests with the same email, both issued *)
(* when no live customer holds that email and overlapping in time: exactly *)
(* one succeeds, the other gets 'customer with this email already exists', *)
(* and exactly one row with that email is in the table.                    *)
(***************************************************************************)
C1_RacingCreates(p, q) ==
    /\ p # q
    /\ Answered(p, "CreateCustomer") /\ Answered(q, "CreateCustomer")
    /\ q \in proc[p].conc
    /\ proc[p].req.Email = proc[q].req.Email
    /\ WellFormed(proc[p].req) /\ WellFormed(proc[q].req)
    /\ Holders(proc[p].before, proc[p].req.Email) = {}
    /\ Holders(proc[q].before, proc[q].req.Email) = {}

C1_OneCreateWins ==
    \A p, q \in Procs :
       C1_RacingCreates(p, q) =>
          /\ {proc[p].err, proc[q].err} =
                {"nil", "customer with this email already exists"}
          /\ Cardinality({r \in customers : r.Email = proc[p].req.Email}) = 1

(***************************************************************************)
(* C2.  No two live customers have the same email.                         *)
(***************************************************************************)
C2_UniqueEmail ==
    \A a, b \in customers :
       Live(a) /\ Live(b) /\ a.Email = b.Email => a.ID = b.ID

(* A create that passed the email lookup was turned down by the insert,    *)
(* beside a live customer and a soft-deleted one.                          *)
C2_Witness ==
    /\ \E p \in Procs :
          /\ Answered(p, "CreateCustomer")
          /\ proc[p].err = "customer with this email already exists"
          /\ proc[p].customer # NoCustomer
          /\ Holders(customers, proc[p].req.Email) # {}
    /\ \E r \in customers : ~Live(r)

(***************************************************************************)
(* C3.  Once a customer with email e is soft-deleted and no live customer  *)
(* holds e, a valid CreateCustomer with email e succeeds and returns a     *)
(* customer with a new id.                                                 *)
(***************************************************************************)
C3_DeletedEmailReusable ==
    \A p \in Procs :
       /\ Answered(p, "CreateCustomer")
       /\ WellFormed(proc[p].req)
       /\ ~proc[p].fault
       /\ Holders(proc[p].before, proc[p].req.Email) = {}
       /\ \E r \in proc[p].before : ~Live(r) /\ r.Email = proc[p].req.Email
       => /\ proc[p].err = "nil"
          /\ proc[p].resp.ID \notin IdsOf(proc[p].before) \cup {ZeroUUID}

(***************************************************************************)
(* C4.  Once DeleteCustomer(id) has returned success the row of id is in   *)
(* the table with deleted_at set, GetByID does not find it, and no page of *)
(* List or Search, for any page, page size, query or status, contains it   *)
(* or counts it; and no answer of GetCustomer, ListCustomers or            *)
(* SearchCustomers given afterwards shows a soft-deleted customer.         *)
(***************************************************************************)
C4_Hidden(id) ==
    /\ \E r \in customers : r.ID = id /\ r.DeletedAt.Valid
    /\ GetByID(customers, id, FALSE).err = "customer not found"
    /\ id \notin IdsOf(ListScope(customers))
    /\ \A page \in {NormalizePage(x) : x \in Pages},
          pageSize \in {NormalizePageSize(x) : x \in PageSizes} :
          /\ \A items \in ListFind(customers, page, pageSize) :
                \A i \in 1..Len(items) : items[i].ID # id
          /\ \A query \in Queries, status \in Statuses :
                LET req == CustomerSearchRequest(query, status, page, pageSize)
                IN  /\ id \notin IdsOf(SearchScope(customers, req))
                    /\ \A items \in SearchFind(customers, req) :
                          \A i \in 1..Len(items) : items[i].ID # id

C4_AnswersShowNoDeleted ==
    LET gone == {r.ID : r \in {x \in customers : ~Live(x)}}
        rec == proc[1]
    IN  /\ Answered(1, "GetCustomer") /\ rec.id \in gone => rec.err # "nil"
        /\ rec.pc = "done" /\ rec.op \in {"ListCustomers", "SearchCustomers"}
              /\ rec.err = "nil" =>
              /\ \A i \in 1..Len(rec.list.Customers) : rec.list.Customers[i].ID \notin gone
              /\ rec.list.Total =
                    Cardinality({r \in SearchScope(customers, rec.search) : Live(r)})

C4_SoftDeleteHides ==
    /\ Answered(1, "DeleteCustomer") /\ proc[1].err = "nil" => C4_Hidden(proc[1].id)
    /\ C4_AnswersShowNoDeleted

(* John and Jane were created, John was deleted, and a search for "jo"     *)
(* came back empty.                                                        *)
C4_Witness ==
    /\ Answered(1, "SearchCustomers")
    /\ proc[1].err = "nil"
    /\ proc[1].search.Query = <<"j", "o">>
    /\ proc[1].list.Customers = <<>>
    /\ proc[1].list.Total = 0
    /\ \E r \in customers : ~Live(r) /\ r.FirstName = John
    /\ \E r \in customers : Live(r) /\ r.FirstName = Jane

(***************************************************************************)
(* C5.  A soft-deleted customer stays soft-deleted: no step, the save of   *)
(* an update that loaded the customer before the delete included, clears   *)
(* or changes its deleted_at.                                              *)
(***************************************************************************)
C5_DeletedStaysDeleted ==
    [][\A r \in customers :
          r.DeletedAt.Valid =>
             \E x \in customers' : x.ID = r.ID /\ x.DeletedAt = r.DeletedAt]_vars

(***************************************************************************)
(* C6.  UpdateCustomer(id, req) on a live customer whose email differs     *)
(* from req.email, while another live customer holds req.email, returns    *)
(* 'customer with this email already exists' and leaves every row of the   *)
(* table as it was.                                                        *)
(***************************************************************************)
C6_Applies ==
    /\ Answered(1, "UpdateCustomer")
    /\ ~proc[1].fault
    /\ WellFormed(proc[1].req)
    /\ \E c \in proc[1].before :
          Live(c) /\ c.ID = proc[1].id /\ c.Email # proc[1].req.Email
    /\ \E o \in proc[1].before :
          Live(o) /\ o.ID # proc[1].id /\ o.Email = proc[1].req.Email

C6_ConflictingUpdateRejected ==
    C6_Applies =>
       /\ proc[1].err = "customer with this email already exists"
       /\ customers = proc[1].before

C6_Witness == C6_Applies /\ proc[1].err # "nil" /\ Cardinality(customers) >= 2

(***************************************************************************)
(* C7.  Every successful CreateCustomer returns a customer with status     *)
(* active and an id that is not zero and is the id of no row the table     *)
(* held before, soft-deleted rows included.                                *)
(***************************************************************************)
C7_FreshActiveCustomer ==
    [][\A p \in Procs :
          proc[p].pc = "Create" /\ proc'[p].pc = "done" /\ proc'[p].err = "nil" =>
             /\ proc'[p].resp.Status = "active"
             /\ proc'[p].resp.ID # ZeroUUID
             /\ proc'[p].resp.ID \notin IdsOf(customers)
             /\ \E r \in customers' : r.ID = proc'[p].resp.ID /\ r.Status = "active"]_vars

(* A customer was created after an earlier one had been soft-deleted.      *)
C7_Witness ==
    \E p \in Procs :
       /\ Answered(p, "CreateCustomer")
       /\ proc[p].err = "nil"
       /\ \E r \in customers : ~Live(r) /\ r.ID < proc[p].resp.ID

(***************************************************************************)
(* C8.  CreateCustomer and UpdateCustomer answer a request that breaks a   *)
(* field constraint (name of 2..100, phone of 10..20, well-formed email)   *)
(* with a validation error and leave the table unchanged.                  *)
(***************************************************************************)
C8_MalformedRejected ==
    proc[1].pc = "done" /\ proc[1].op \in {"CreateCustomer", "UpdateCustomer"}
       /\ ~WellFormed(proc[1].req) =>
          /\ proc[1].err \in ValidationErrors
          /\ customers = proc[1].before

(***************************************************************************)
(* C9.  The validation error CreateCustomer or UpdateCustomer returns is   *)
(* the one of the first field, in the order first_name, last_name, email,  *)
(* phone, that breaks its constraint.                                      *)
(***************************************************************************)
C9_EarliestFieldReported ==
    proc[1].pc = "done" /\ proc[1].op \in {"CreateCustomer", "UpdateCustomer"}
       /\ proc[1].err \in ValidationErrors =>
          proc[1].err = FirstViolation(proc[1].req)

(***************************************************************************)
(* C10.  ListCustomers and SearchCustomers report page = page if           *)
(* page >= 1, else 1, and page_size = 10 if pageSize <= 0, 100 if          *)
(* pageSize > 100, else pageSize, and hand these values to the repository, *)
(* whose page query uses them as LIMIT and, times page - 1, as OFFSET.     *)
(***************************************************************************)
C10_Listed == proc[1].pc = "done" /\ proc[1].op \in {"ListCustomers", "SearchCustomers"}
                 /\ proc[1].err = "nil"

C10_PaginationNormalized ==
    LET rec == proc[1]
        page == IF rec.input.Page >= 1 THEN rec.input.Page ELSE 1
        size == IF rec.input.PageSize <= 0 THEN 10
                ELSE IF rec.input.PageSize > 100 THEN 100 ELSE rec.input.PageSize
    IN  C10_Listed =>
           /\ rec.list.Page = page /\ rec.list.PageSize = size
           /\ rec.search.Page = page /\ rec.search.PageSize = size
           /\ rec.sql.Limit = size
           /\ rec.sql.Offset = WrapInt((page - 1) * size)

(* ListCustomers(page = 0, page_size = 150) answered page 1 of size 100.  *)
C10_Witness ==
    /\ C10_Listed
    /\ proc[1].op = "ListCustomers"
    /\ proc[1].input.Page = 0 /\ proc[1].input.PageSize = 150
    /\ proc[1].list.Page = 1 /\ proc[1].list.PageSize = 100
    /\ Len(proc[1].list.Customers) = 2

(***************************************************************************)
(* C11.  In every ListCustomers and SearchCustomers response total_pages   *)
(* is ceil(total / page_size) for the normalized page_size: 0 when total   *)
(* is 0, otherwise the least n with n * page_size >= total; and so is the  *)
(* value the service computes for every row count up to MaxTotal.          *)
(***************************************************************************)
C11_IsCeiling(total, size, n) ==
    IF total = 0 THEN n = 0
    ELSE n * size >= total /\ (n - 1) * size < total

C11_NormalSize(x) == IF x <= 0 THEN 10 ELSE IF x > 100 THEN 100 ELSE x

C11_TotalPagesIsCeiling ==
    /\ \A p \in Procs :
          proc[p].pc = "done" /\ proc[p].op \in {"ListCustomers", "SearchCustomers"}
             /\ proc[p].err = "nil" =>
             /\ proc[p].list.PageSize = C11_NormalSize(proc[p].input.PageSize)
             /\ C11_IsCeiling(proc[p].list.Total, proc[p].list.PageSize,
                              proc[p].list.TotalPages)
    /\ \A total \in 0..MaxTotal, size \in PageSizes :
          C11_IsCeiling(total, C11_NormalSize(size),
                        TotalPages(total, NormalizePageSize(size)))

(* Two customers listed one to a page: two pages.                          *)
C11_Witness ==
    /\ Answered(1, "ListCustomers")
    /\ proc[1].err = "nil"
    /\ proc[1].list.Total = 2
    /\ proc[1].list.PageSize = 1
    /\ proc[1].list.TotalPages = 2

(***************************************************************************)
(* C12.  With requests served one at a time and N live customers,          *)
(* ListCustomers(page, pageSize) succeeds with total = N and with exactly  *)
(* the customers at positions (p-1)*s+1 .. min(p*s, N) of the live         *)
(* customers in descending order of creation time (p and s the normalized  *)
(* page and page size); a page past the end is an empty list.              *)
(***************************************************************************)
C12_Sorted(S) ==
    {o \in [1..Cardinality(S) -> S] :
        /\ \A i, j \in 1..Cardinality(S) : i # j => o[i] # o[j]
        /\ \A i, j \in 1..Cardinality(S) : i < j => o[i].CreatedAt >= o[j].CreatedAt}

C12_Page(o, p, s) ==
    LET first == (p - 1) * s + 1
        last == IF p * s < Len(o) THEN p * s ELSE Len(o)
    IN  [i \in 1..(IF last >= first THEN last - first + 1 ELSE 0) |->
            ToResponse(o[first + i - 1])]

C12_ListIsPageOfSorted ==
    Answered(1, "ListCustomers") /\ ~proc[1].fault =>
       LET live == {r \in customers : Live(r)}
           p == IF proc[1].input.Page >= 1 THEN proc[1].input.Page ELSE 1
           s == C11_NormalSize(proc[1].input.PageSize)
       IN  /\ proc[1].err = "nil"
           /\ proc[1].list.Total = Cardinality(live)
           /\ \E o \in C12_Sorted(live) : proc[1].list.Customers = C12_Page(o, p, s)

(***************************************************************************)
(* C13.  SearchCustomers answers with the page of, and a total that        *)
(* counts, exactly the live customers for which the query is empty or      *)
(* occurs, letter case ignored, in first_name, last_name, email or phone,  *)
(* and the status filter is empty or equals the customer's status; the     *)
(* total is the same for every page and page size, and with both filters   *)
(* empty the answer is one that ListCustomers gives.                       *)
(***************************************************************************)
C13_Fold(c) ==
    LET pairs == {<<"A", "a">>, <<"D", "d">>, <<"E", "e">>, <<"J", "j">>,
                  <<"O", "o">>, <<"R", "r">>}
    IN  IF \E x \in pairs : x[1] = c THEN (CHOOSE x \in pairs : x[1] = c)[2] ELSE c

C13_Occurs(q, s) ==
    \E k \in 0..(Len(s) - Len(q)) :
       \A j \in 1..Len(q) : C13_Fold(s[k + j]) = C13_Fold(q[j])

C13_Matching(rows, query, status) ==
    {r \in rows :
        /\ Live(r)
        /\ \/ query = <<>>
           \/ C13_Occurs(query, r.FirstName) \/ C13_Occurs(query, r.LastName)
           \/ C13_Occurs(query, r.Email) \/ C13_Occurs(query, r.Phone)
        /\ status = "" \/ r.Status = status}

C13_SearchReturnsMatching ==
    Answered(1, "SearchCustomers") /\ ~proc[1].fault =>
       LET in == proc[1].input
           m == C13_Matching(customers, in.Query, in.Status)
           p == IF in.Page >= 1 THEN in.Page ELSE 1
           s == C11_NormalSize(in.PageSize)
       IN  /\ proc[1].err = "nil"
           /\ proc[1].list.Total = Cardinality(m)
           /\ \E o \in C12_Sorted(m) : proc[1].list.Customers = C12_Page(o, p, s)
           /\ in.Query = <<>> /\ in.Status = "" =>
                 /\ proc[1].list.Total = Cardinality(ListScope(customers))
                 /\ \E items \in ListFind(customers, p, s) :
                       proc[1].list.Customers =
                          [i \in 1..Len(items) |-> ToResponse(items[i])]

(***************************************************************************)
(* C14.  DeleteCustomer(id), the store not failing: when no live customer  *)
(* has the id it returns 'customer not found' and leaves every row as it   *)
(* was, the deleted_at of a soft-deleted row of that id included; when a   *)
(* live customer has the id it succeeds and sets that row's deleted_at.    *)
(* So of two successive deletes of a customer the first succeeds and the   *)
(* second returns not-found.                                               *)
(***************************************************************************)
C14_Deleted == Answered(1, "DeleteCustomer") /\ ~proc[1].fault

C14_DeleteOfAbsentIsNotFound ==
    C14_Deleted =>
       IF \E r \in proc[1].before : Live(r) /\ r.ID = proc[1].id
       THEN /\ proc[1].err = "nil"
            /\ \E r \in customers : r.ID = proc[1].id /\ r.DeletedAt.Valid
            /\ {r \in customers : r.ID # proc[1].id} =
                  {r \in proc[1].before : r.ID # proc[1].id}
       ELSE /\ proc[1].err = "customer not found"
            /\ customers = proc[1].before

(* The second delete of a customer, issued at a later time than the first, *)
(* was answered not-found.                                                 *)
C14_Witness ==
    /\ C14_Deleted
    /\ proc[1].err = "customer not found"
    /\ \E r \in customers :
          r.ID = proc[1].id /\ r.DeletedAt.Valid /\ r.DeletedAt.Time + 2 <= now

(***************************************************************************)
(* C15.  The save of a successful UpdateCustomer(id, req) gives the row of *)
(* id the request's first_name, last_name, email, phone, date_of_birth and *)
(* address, keeps the row's id, status, created_at and deleted_at, and     *)
(* leaves every other row as it was.                                       *)
(***************************************************************************)
C15_UpdateFrame ==
    [][\A p \in Procs :
          proc[p].pc \in {"GetByEmail", "Save"} /\ proc'[p].pc = "done"
             /\ proc'[p].err = "nil" =>
             /\ \E n \in customers' :
                   /\ n.ID = proc[p].id
                   /\ n.FirstName = proc[p].req.FirstName
                   /\ n.LastName = proc[p].req.LastName
                   /\ n.Email = proc[p].req.Email
                   /\ n.Phone = proc[p].req.Phone
                   /\ n.DateOfBirth = proc[p].req.DateOfBirth
                   /\ n.Address = proc[p].req.Address
                   /\ \E o \in customers :
                         /\ o.ID = n.ID
                         /\ o.Status = n.Status
                         /\ o.CreatedAt = n.CreatedAt
                         /\ o.DeletedAt = n.DeletedAt
             /\ {r \in customers' : r.ID # proc[p].id} =
                   {r \in customers : r.ID # proc[p].id}]_vars

(***************************************************************************)
(* C16.  Once a store call of a CreateCustomer or UpdateCustomer request   *)
(* has failed, the email lookup included, the request is over: it has      *)
(* returned an error, it has no insert or save ahead of it, and the table  *)
(* is as it was when the request began.                                    *)
(***************************************************************************)
C16_StoreFailureEndsRequest ==
    proc[1].op \in {"CreateCustomer", "UpdateCustomer"} /\ proc[1].fault =>
       /\ proc[1].pc = "done"
       /\ proc[1].err # "nil"
       /\ customers = proc[1].before

(***************************************************************************)
(* C17.  A request in which a store call failed with an unexpected error   *)
(* is answered with an internal failure: the service returns one of the    *)
(* 'failed to ...' errors, not a validation, conflict or not-found error   *)
(* and not success, and the handler answers 500, not 400 or 404.           *)
(***************************************************************************)
C17_InternalErrors ==
    {"failed to create customer", "failed to get customer",
     "failed to update customer", "failed to delete customer",
     "failed to count customers", "failed to list customers",
     "failed to search customers"}

C17_StoreFailureIsInternal ==
    proc[1].pc = "done" /\ proc[1].fault =>
       /\ proc[1].err \in C17_InternalErrors
       /\ proc[1].code = 500

(***************************************************************************)
(* C18.  GetCustomer(id), the store not failing, succeeds exactly when a   *)
(* live customer has the id and then returns the stored fields of that     *)
(* customer; and the customer that a successful CreateCustomer or          *)
(* UpdateCustomer returns is the one that a GetCustomer of its id, made    *)
(* next, returns.                                                          *)
(***************************************************************************)
C18_Written ==
    /\ proc[1].pc = "done"
    /\ proc[1].op \in {"CreateCustomer", "UpdateCustomer"}
    /\ proc[1].err = "nil"

C18_GetReturnsLastWrite ==
    /\ Answered(1, "GetCustomer") /\ ~proc[1].fault =>
          LET found == {r \in customers : Live(r) /\ r.ID = proc[1].id}
          IN  /\ proc[1].err = "nil" <=> found # {}
              /\ proc[1].err = "nil" => \E r \in found : proc[1].resp = ToResponse(r)
    /\ C18_Written =>
          LET get == GetByID(customers, proc[1].resp.ID, FALSE)
          IN  /\ get.err = "nil"
              /\ ToResponse(get.customer) = proc[1].resp

(***************************************************************************)
(* C19.  config.Load gives every documented variable that is not set (or   *)
(* is set to the empty string) the default of the README table, among them *)
(* SERVER_HOST = 0.0.0.0 and DB_PASSWORD = postgres, and gives an integer  *)
(* variable whose value is not a valid integer its default.                *)
(***************************************************************************)
C19_Readme ==
    [APP_ENV |-> "development", SERVER_HOST |-> "0.0.0.0", SERVER_PORT |-> 8080,
     DB_HOST |-> "localhost", DB_PORT |-> 5432, DB_USER |-> "postgres",
     DB_PASSWORD |-> "postgres", DB_NAME |-> "core_bank", DB_SSL_MODE |-> "disable"]

C19_Loaded(c) ==
    [APP_ENV |-> c.App.Environment, SERVER_HOST |-> c.Server.Host,
     SERVER_PORT |-> c.Server.Port, DB_HOST |-> c.Database.Host,
     DB_PORT |-> c.Database.Port, DB_USER |-> c.Database.User,
     DB_PASSWORD |-> c.Database.Password, DB_NAME |-> c.Database.DBName,
     DB_SSL_MODE |-> c.Database.SSLMode]

C19_NotAnInteger(s) ==
    \/ s \in {<<>>, <<"+">>, <<"-">>}
    \/ \E i \in 1..Len(s) :
          s[i] \notin {"0", "1", "2", "3", "4", "5", "6", "7", "8", "9"}
             /\ ~(i = 1 /\ s[i] \in {"+", "-"})

C19_DefaultsAsDocumented ==
    boot.pc = "loaded" =>
       \A k \in DOMAIN C19_Readme :
          IF k \in {"SERVER_PORT", "DB_PORT"}
          THEN C19_NotAnInteger(boot.env[k]) =>
                  C19_Loaded(boot.config)[k] = C19_Readme[k]
          ELSE boot.env[k] = "" => C19_Loaded(boot.config)[k] = C19_Readme[k]

(***************************************************************************)
(* C20.  No step removes a row or changes the id of a row: every id of the *)
(* table is an id of the table after the step; and a soft-deleted row has  *)
(* after the step the values it had in every field other than deleted_at.  *)
(***************************************************************************)
C20_RowsPersist ==
    [][/\ IdsOf(customers) \subseteq IdsOf(customers')
       /\ Cardinality(customers') >= Cardinality(customers)
       /\ \A r \in customers :
             r.DeletedAt.Valid =>
                \E x \in customers' :
                   x.ID = r.ID /\ [x EXCEPT !.DeletedAt = r.DeletedAt] = r]_vars

(***************************************************************************)
(* C21.  UpdateCustomer runs the email uniqueness check only when the      *)
(* request's email differs from the stored one: a well-formed update whose *)
(* email equals the email of the live customer it names never returns the  *)
(* conflict error and, when no store call fails and no other request is in *)
(* flight during it, succeeds and answers with the request's fields.       *)
(***************************************************************************)
C21_KeepsEmail(p) ==
    /\ Answered(p, "UpdateCustomer")
    /\ WellFormed(proc[p].req)
    /\ \E r \in proc[p].before :
          r.ID = proc[p].id /\ Live(r) /\ r.Email = proc[p].req.Email

C21_SameEmailNeverConflicts ==
    \A p \in Procs :
       C21_KeepsEmail(p) =>
          /\ proc[p].err # ErrConflict
          /\ (~proc[p].fault /\ proc[p].conc = {}) =>
                /\ proc[p].err = Nil
                /\ proc[p].resp.ID = proc[p].id
                /\ proc[p].resp.Email = proc[p].req.Email
                /\ proc[p].resp.FirstName = proc[p].req.FirstName
                /\ proc[p].resp.LastName = proc[p].req.LastName

(* Such an update succeeded while another live customer was in the table.  *)
C21_Witness ==
    \E p \in Procs :
       /\ C21_KeepsEmail(p)
       /\ proc[p].err = Nil
       /\ \E r \in proc[p].before : r.ID # proc[p].id /\ Live(r)

(***************************************************************************)
(* C22.  Validation precedes every store access: CreateCustomer answers a  *)
(* request that breaks a field constraint with the validation error even   *)
(* when its email is taken, UpdateCustomer even when the id names no live  *)
(* customer, and neither has read or written the table.                    *)
(***************************************************************************)
C22_StoreWouldReject(p) ==
    \/ /\ Answered(p, "CreateCustomer")
       /\ Holders(proc[p].before, proc[p].req.Email) # {}
    \/ /\ Answered(p, "UpdateCustomer")
       /\ ~\E r \in proc[p].before : r.ID = proc[p].id /\ Live(r)

C22_ValidationPrecedesStore ==
    \A p \in Procs :
       C22_StoreWouldReject(p) /\ ~WellFormed(proc[p].req) =>
          /\ proc[p].err \in ValidationErrors
          /\ proc[p].err \notin {ErrConflict, ErrNotFound}
          /\ proc[p].customer = NoCustomer

(***************************************************************************)
(* C23.  For every non-empty query, the characters % and _ included,       *)
(* SearchCustomers matches a live customer exactly when the query occurs,  *)
(* letter case ignored, as a contiguous substring of its first_name,       *)
(* last_name, email or phone: the total counts those customers (of the     *)
(* requested status) and every returned customer is one of them.           *)
(***************************************************************************)
C23_Contains(r, query) ==
    \/ C13_Occurs(query, r.FirstName) \/ C13_Occurs(query, r.LastName)
    \/ C13_Occurs(query, r.Email) \/ C13_Occurs(query, r.Phone)

C23_QueryIsLiteralSubstring ==
    Answered(1, "SearchCustomers") /\ ~proc[1].fault /\ proc[1].input.Query # <<>> =>
       LET in == proc[1].input
           hits == {r \in customers :
                       /\ Live(r)
                       /\ in.Status = "" \/ r.Status = in.Status
                       /\ C23_Contains(r, in.Query)}
       IN  /\ proc[1].list.Total = Cardinality(hits)
           /\ \A i \in 1..Len(proc[1].list.Customers) :
                 proc[1].list.Customers[i].ID \in IdsOf(hits)

(***************************************************************************)
(* C24.  The UpdateCustomer and DeleteCustomer handlers answer 404 exactly *)
(* when the service error is 'customer not found', which is the error for  *)
(* an id that names no live customer, and 400 for every other failure; on  *)
(* success UpdateCustomer answers 200 with the customer and DeleteCustomer *)
(* answers 204 without a body.                                             *)
(***************************************************************************)
C24_StatusOfUpdateAndDelete ==
    Answered(1, "UpdateCustomer") \/ Answered(1, "DeleteCustomer") =>
       LET rec == proc[1]
           known == \E r \in rec.before : r.ID = rec.id /\ Live(r)
       IN  /\ rec.code = StatusNotFound <=> rec.err = ErrNotFound
           /\ rec.err = ErrNotFound => ~known
           /\ /\ ~known /\ ~rec.fault
              /\ rec.op = "UpdateCustomer" => validateCustomerRequest(rec.req) = Nil
              => rec.err = ErrNotFound
           /\ rec.err \notin {Nil, ErrNotFound} => rec.code = StatusBadRequest
           /\ rec.err = Nil /\ rec.op = "UpdateCustomer" =>
                 /\ rec.code = StatusOK
                 /\ rec.resp # NoResponse
                 /\ rec.resp.ID = rec.id
           /\ rec.err = Nil /\ rec.op = "DeleteCustomer" =>
                 /\ rec.code = StatusNoContent
                 /\ rec.resp = NoResponse
           /\ rec.err # Nil => rec.resp = NoResponse

(* An update of a soft-deleted customer was answered 404.                  *)
C24_Witness ==
    /\ Answered(1, "UpdateCustomer")
    /\ proc[1].code = StatusNotFound
    /\ \E r \in proc[1].before : r.ID = proc[1].id /\ ~Live(r)

(***************************************************************************)
(* C25.  A CreateCustomer, UpdateCustomer or DeleteCustomer call that      *)
(* returns an error leaves the table as it was, and GetCustomer,           *)
(* ListCustomers and SearchCustomers never change it: the table changes    *)
(* only in the step in which a create, update or delete returns success.   *)
(***************************************************************************)
C25_SuccessfulWrite(p) ==
    /\ proc[p].pc \in {"Create", "Save", "Delete"}
    /\ proc[p].op \in {"CreateCustomer", "UpdateCustomer", "DeleteCustomer"}
    /\ proc'[p].pc = "done"
    /\ proc'[p].err = Nil
    /\ \A q \in Procs \ {p} : proc'[q] = proc[q]

C25_OnlySuccessWrites ==
    [][customers' # customers => \E p \in Procs : C25_SuccessfulWrite(p)]_vars

(* A delete of a live customer failed in the store and the customer is     *)
(* still live.                                                             *)
C25_Witness ==
    /\ Answered(1, "DeleteCustomer")
    /\ proc[1].err = ErrDeleteFailed
    /\ \E r \in customers : r.ID = proc[1].id /\ Live(r)
    /\ customers = proc[1].before

(***************************************************************************)
(* C26.  Two concurrent DeleteCustomer requests for the same live          *)
(* customer, no other request in flight with them: under every             *)
(* interleaving of their lookups and soft deletes exactly one returns      *)
(* success and the other 'customer not found', and deleted_at is set once  *)
(* (the soft delete of the request that fails writes nothing).  Stated at  *)
(* the step in which the second of the two requests returns.               *)
(***************************************************************************)
C26_SawLive(p) ==
    \E r \in proc[p].before : r.ID = proc[p].id /\ Live(r)

C26_SecondReturns(p, q) ==
    /\ p # q
    /\ Answered(p, "DeleteCustomer")
    /\ proc[q].op = "DeleteCustomer"
    /\ proc[q].pc = "Delete"
    /\ proc'[q].pc = "done"
    /\ proc[p].id = proc[q].id
    /\ proc[q].conc = {p}
    /\ C26_SawLive(p)
    /\ C26_SawLive(q)

C26_OneDeleteWins ==
    [][\A p, q \in Procs :
          C26_SecondReturns(p, q) =>
             /\ {proc[p].err, proc'[q].err} = {Nil, ErrNotFound}
             /\ proc[p].err = Nil => customers' = customers
             /\ \E r \in customers' : r.ID = proc[q].id /\ ~Live(r)
             /\ \A r \in customers' : r.ID # proc[q].id => r \in customers]_vars

(* Both requests found the customer before either soft-deleted it; one     *)
(* succeeded and the other was told 'customer not found' by the store.     *)
C26_Witness ==
    \E p, q \in Procs :
       /\ p # q
       /\ Answered(p, "DeleteCustomer")
       /\ Answered(q, "DeleteCustomer")
       /\ proc[p].id = proc[q].id
       /\ p \in proc[q].conc
       /\ C26_SawLive(p)
       /\ C26_SawLive(q)
       /\ proc[p].err = Nil
       /\ proc[q].err = ErrNotFound

(***************************************************************************)
(* C27.  Two concurrent successful UpdateCustomer requests for the same    *)
(* customer, no other request in flight with them: under every             *)
(* interleaving of their loads and saves the stored first_name, last_name, *)
(* email, phone, date_of_birth and address are those of one request, the   *)
(* one that saved later, never a mixture.  Stated at the step in which the *)
(* later save returns.                                                     *)
(***************************************************************************)
C27_Fields(x) ==
    <<x.FirstName, x.LastName, x.Email, x.Phone, x.DateOfBirth, x.Address>>

C27_LaterSaveReturns(p, q) ==
    /\ p # q
    /\ Answered(p, "UpdateCustomer")
    /\ proc[p].err = Nil
    /\ proc[q].op = "UpdateCustomer"
    /\ proc[q].pc = "Save"
    /\ proc'[q].pc = "done"
    /\ proc'[q].err = Nil
    /\ proc[p].id = proc[q].id
    /\ proc[q].conc = {p}

C27_LaterSaveWinsWhole ==
    [][\A p, q \in Procs :
          C27_LaterSaveReturns(p, q) =>
             \A r \in customers' :
                r.ID = proc[q].id =>
                   C27_Fields(r) = C27_Fields([proc[q].req EXCEPT
                                      !.DateOfBirth = PgDate(@)])]_vars

(* Two overlapping updates with different requests both succeeded and the  *)
(* row holds the fields of one of them.                                    *)
C27_Witness ==
    \E p, q \in Procs :
       /\ p # q
       /\ Answered(p, "UpdateCustomer")
       /\ Answered(q, "UpdateCustomer")
       /\ proc[p].err = Nil
       /\ proc[q].err = Nil
       /\ proc[p].id = proc[q].id
       /\ p \in proc[q].conc
       /\ C27_Fields(proc[p].req) # C27_Fields(proc[q].req)
       /\ \E r \in customers :
             r.ID = proc[q].id /\ C27_Fields(r) = C27_Fields(proc[q].req)

(***************************************************************************)
(* C28.  With no write in between and one page size s, the item lists of   *)
(* ListCustomers(1, s), ..., ListCustomers(total_pages, s) together hold   *)
(* every live customer exactly once, also when customers share a           *)
(* created_at.  The pages are the answers the processes hold, one page     *)
(* each, all taken from the present table.                                 *)
(***************************************************************************)
C28_IsPageOfNow(p, page, s) ==
    /\ Answered(p, "ListCustomers")
    /\ proc[p].err = Nil
    /\ proc[p].search.Page = page
    /\ proc[p].search.PageSize = s
    /\ proc[p].before = customers

C28_Items(p) ==
    {<<p, i>> : i \in 1..Len(proc[p].list.Customers)}

C28_PagesPartitionTable ==
    \A s \in 1..MaxPageSize :
       LET n == TotalPages(Cardinality({r \in customers : Live(r)}), s)
       IN  \A f \in [1..n -> Procs] :
              (\A i \in 1..n : C28_IsPageOfNow(f[i], i, s)) =>
                 LET items == UNION {C28_Items(f[i]) : i \in 1..n}
                     id(x) == proc[x[1]].list.Customers[x[2]].ID
                 IN  /\ \A r \in customers : Live(r) => \E x \in items : id(x) = r.ID
                     /\ \A x, y \in items : id(x) = id(y) => x = y

(***************************************************************************)
(* C29.  initDatabaseWithRetry(cfg, maxRetries, delay) terminates after at *)
(* most maxRetries connection attempts: it returns nil at the first        *)
(* attempt in which open, handle retrieval and ping all succeed, returns   *)
(* an error once maxRetries attempts have failed (with no attempt at all   *)
(* when maxRetries <= 0), and sleeps only between two attempts, never      *)
(* after the last one.                                                     *)
(***************************************************************************)
C29_Failures == {ErrDBConnect, ErrDBInstance, ErrDBPing}

C29_Attempts(log) == {k \in 1..Len(log) : log[k] # "sleep"}

C29_Returned == boot.db.pc = "return"

C29_Safe ==
    LET db == boot.db
        log == db.log
        n == Len(log)
        limit == IF db.maxRetries > 0 THEN db.maxRetries ELSE 0
    IN  /\ Cardinality(C29_Attempts(log)) <= limit
        /\ \A k \in 1..n :
              /\ log[k] = "connected" => k = n /\ C29_Returned /\ db.err = Nil
              /\ log[k] = "sleep" => k > 1 /\ log[k - 1] \in C29_Failures
              /\ log[k] \in C29_Failures /\ k < n => log[k + 1] = "sleep"
        /\ C29_Returned =>
              /\ n > 0 => log[n] # "sleep"
              /\ db.err = Nil => n > 0 /\ log[n] = "connected"
              /\ db.err # Nil =>
                    /\ db.err \in C29_Failures
                    /\ Cardinality(C29_Attempts(log)) = limit
                    /\ \A k \in C29_Attempts(log) : log[k] \in C29_Failures
                    /\ n > 0 => log[n] = db.err

C29_RetryTerminates == []C29_Safe /\ <>C29_Returned

(* The function returned nil at its last permitted attempt, after every    *)
(* earlier attempt had failed and been followed by a sleep.                *)
C29_Witness ==
    /\ C29_Returned
    /\ boot.db.err = Nil
    /\ boot.db.maxRetries >= 2
    /\ Cardinality(C29_Attempts(boot.db.log)) = boot.db.maxRetries

====
